---- MODULE Spec2Model ----
(***************************************************************************)
(* Model of the M240 capture sequencer of the OctoPrint plugin             *)
(* octoprint_LayerCaptureDatacollect/LayerCaptureDatacollect.py.           *)
(*                                                                         *)
(* Threads: the job producer (which runs on_gcode_queuing for the lines of *)
(* the print job), one capture worker per started thread                   *)
(* (_do_capture_sequence_async), and the serial reader (gcode_received).   *)
(* Coordinates are fixed-point numbers in hundredths of a unit.            *)
(***************************************************************************)
EXTENDS Integers, Sequences, FiniteSets, TLC

(* ---- bounds -------------------------------------------------------- *)
MaxWorkers == 2        \* capture threads that can be started in one run
MaxJobLines == 2       \* lines the job producer queues in one run
MaxPrints == 1         \* PRINT_STARTED events in one run
MaxBlanks == 2         \* extra blanks at one place of a trigger line
MaxLayers == 4         \* layers of a job of the layer-interval plugin
MaxThreads == 2        \* capture threads the layer-interval plugin starts in one run
MaxCalls == 5          \* calls made on one Camera object

(* ---- program constants --------------------------------------------- *)
CAM_X_OFFSET == -35
CAM_Y_OFFSET == 18
CAM_Z_OFFSET == 60
RandLo == -10
RandHi == 10

Workers == 1..MaxWorkers

(* ---- data ---------------------------------------------------------- *)
NoPos == [x |-> 0, y |-> 0, z |-> 0, e |-> 0]
Home == [x |-> 10000, y |-> 5000, z |-> 1240, e |-> 500]
JobPos == [x |-> 12000, y |-> 8000, z |-> 1240, e |-> 650]

\* the (x, y, z) results of the three random.randint(-10, 10) calls in the model
Draws == {<<5, 4, 1>>, <<-10, 10, 0>>}

\* A command line is its upper-cased text, cut into tokens: a command word,
\* a blank, a tag letter, a numeric literal ([+-]?\d*\.?\d+) or another word;
\* pos is where a move line leaves the device.
Numbers == {"12.40", "37", "-0.5", "+8"}
IsNumber(t) == t \in Numbers

\* what re.search(...) gives when nothing matches
NoMatch == "none"

\* lines of the print job: a move, a trigger marker with both fields, and
\* markers whose height or layer number is missing or not a number
MoveLine == [text |-> <<"G1">>, pos |-> JobPos]
TriggerLine == [text |-> <<"M240", " ", "Z", "12.40", " ", "Z", "N", "37">>, pos |-> NoPos]
NoZNLine == [text |-> <<"M240", " ", "Z", "12.40">>, pos |-> NoPos]
NoZLine == [text |-> <<"M240", " ", "Z", "N", "37">>, pos |-> NoPos]
BadZLine == [text |-> <<"M240", " ", "Z", "HIGH", " ", "Z", "N", "37">>, pos |-> NoPos]
JobLines == {MoveLine, TriggerLine, NoZNLine, NoZLine, BadZLine}

NoLine == [text |-> <<>>, pos |-> NoPos]
\* a position response: req is the worker whose M114 it answers, seq the
\* number of requests that had been armed when it arrived
NoResponse == [set |-> FALSE, req |-> 0, pos |-> NoPos, seq |-> 0]

VARIABLES
  printing,              \* self._printer.is_printing()
  prints,                \* PRINT_STARTED events so far
  jobSent,               \* job lines handed to on_gcode_queuing so far
  jobOut,                \* job lines that went on to the device
  jobpc,                 \* job producer: "run", or "release" inside on_gcode_queuing
  jobLine,               \* the line of the producer's latest on_gcode_queuing call
  holdCount,             \* the printer's job-on-hold counter
  acquires,              \* successful set_job_on_hold(True) calls
  releases,              \* set_job_on_hold(False) calls
  failedAcquires,        \* set_job_on_hold(True) calls that returned False
  capture_in_progress,   \* self._capture_in_progress
  waiting_for_position,  \* self._waiting_for_position
  position_event,        \* self._position_event (is set)
  position_response,     \* self._position_response
  rx,                    \* gcode_received between event.set() and the store
  pending,               \* position reports the device still owes, oldest first
  dev,                   \* device position once every queued instruction has run
  worker,                \* per capture thread: position, locals, calls made
  jobModes,              \* positioning and extruder mode the job's G-code runs in
  probe,                 \* a command line under test and what the parser found in it
  settings,              \* layer-interval plugin: self._settings
  octo,                  \* layer-interval plugin: the printer as OctoPrint sees it
  lc,                    \* layer-interval plugin: the attributes of the plugin object
  thread,                \* layer-interval plugin: the capture threads started so far
  audit,                 \* layer-interval plugin: moves sent and images taken
  cam                    \* camera.py: the attributes of a Camera object and its device

vars == <<printing, prints, jobSent, jobOut, jobpc, jobLine, holdCount, acquires,
          releases, failedAcquires, capture_in_progress, waiting_for_position,
          position_event, position_response, rx, pending, dev, worker, jobModes,
          probe, settings, octo, lc, thread, audit, cam>>

NewWorker == [pc |-> "unborn", cmd |-> NoLine, layer_z |-> NoMatch, layer_num |-> NoMatch,
              current_pos |-> NoResponse, target |-> NoPos,
              result |-> "none", log |-> <<>>, ticket |-> 0, sequential |-> FALSE]

(* ---- the layer-interval plugin: LayerCaptureDatacollectPlugin.py ----- *)
\* get_settings_defaults, lengths in hundredths of a millimetre
grid_spacing == 2000
z_offset == 500
min_x == 0
max_x == 25000
min_y == 0
max_y == 21000
DefaultSettings ==
  [enabled |-> TRUE, layer_interval |-> 3, grid_size |-> 3,
   grid_center_x |-> 12500, grid_center_y |-> 10500, max_z |-> 22000,
   enable_movement |-> TRUE]

\* the settings a run is made with: the defaults, and settings with a short
\* interval, a small grid, a grid centre at or beyond the edge of the bed, a
\* low ceiling, or movement switched off
SettingsChoices ==
  {DefaultSettings,
   [DefaultSettings EXCEPT !.layer_interval = 1, !.grid_size = 1],
   [DefaultSettings EXCEPT !.layer_interval = 2, !.grid_size = 2, !.grid_center_x = 24500],
   [DefaultSettings EXCEPT !.layer_interval = 1, !.grid_size = 1, !.grid_center_x = 26000],
   [DefaultSettings EXCEPT !.layer_interval = 1, !.grid_size = 1, !.max_z = 500],
   [DefaultSettings EXCEPT !.layer_interval = 1, !.grid_size = 2, !.max_z = 500],
   [DefaultSettings EXCEPT !.layer_interval = 1, !.grid_size = 1, !.enable_movement = FALSE],
   [DefaultSettings EXCEPT !.enabled = FALSE, !.layer_interval = 1, !.grid_size = 1]}

Threads == 1..MaxThreads
NoXYZ == [x |-> 0, y |-> 0, z |-> 0]
NoOriginal == [set |-> FALSE, pos |-> NoXYZ]

\* the printer: state, the Z height OctoPrint tracks, the layer the job is
\* at, prints started, and who asked for the pause that is in force
NewPrinter == [state |-> "operational", currentZ |-> 0, jobLayer |-> 0, prints |-> 0,
               pausedBy |-> "nobody"]

\* __init__ of the plugin, lines 30-41
NewPlugin ==
  [capture_active |-> FALSE, current_layer |-> 0, last_captured_layer |-> -1,
   current_z_height |-> 0, capture_thread |-> 0, original_position |-> NoOriginal,
   movement_in_progress |-> FALSE, print_paused_for_capture |-> FALSE,
   camera_available |-> TRUE]

\* a capture thread: where it stands, the layer it was scheduled for, and
\* the locals of _execute_capture_sequence and _execute_grid_movement_sequence
NewThread == [pc |-> "unborn", scheduled_for |-> 0, layer_info |-> 0,
              grid_positions |-> <<>>, i |-> 0]

NewAudit == [moves |-> {}, shots |-> {}, reached |-> {}]

\* the plugin object after __init__, printer operational
PluginConstructed ==
  /\ octo = NewPrinter
  /\ lc \in {NewPlugin, [NewPlugin EXCEPT !.camera_available = FALSE]}
  /\ thread = [t \in Threads |-> NewThread]
  /\ audit = NewAudit

(* ---- the camera: camera.py, camera_picamera.py ------------------------ *)
\* Camera.__init__, lines 14-19; device is the Picamera2 object's state,
\* stops and closes count the calls of stop() and close()
NewCamera(fake) ==
  [fake_camera_mode |-> fake, camera_available |-> FALSE, camera_type |-> "none",
   camera |-> FALSE, device |-> "none", stops |-> 0, closes |-> 0, calls |-> 0,
   last |-> "none", result |-> "none"]

NoProbe == [pc |-> "none", text |-> <<>>, z |-> NoMatch, zn |-> NoMatch,
            layer_z |-> NoMatch, layer_num |-> NoMatch]

\* G90 and M82/M83 as set by the start of the job's G-code
Modes == [positioning : {"absolute"}, extruder : {"absolute", "relative"}]

\* the plugin after __init__, no print running
Constructed ==
  /\ jobModes \in Modes
  /\ printing = FALSE
  /\ prints = 0
  /\ jobSent = 0
  /\ jobOut = 0
  /\ jobpc = "run"
  /\ jobLine = NoLine
  /\ holdCount = 0
  /\ acquires = 0
  /\ releases = 0
  /\ failedAcquires = 0
  /\ capture_in_progress = FALSE
  /\ waiting_for_position = FALSE
  /\ position_event = FALSE
  /\ position_response = NoResponse
  /\ rx = NoResponse
  /\ pending = <<>>
  /\ dev = Home
  /\ worker = [w \in Workers |-> NewWorker]

\* everything outside the M240 sequencer stays as constructed
Elsewhere ==
  /\ settings = DefaultSettings
  /\ PluginConstructed
  /\ lc = NewPlugin
  /\ cam = NewCamera(FALSE)

Init ==
  /\ Constructed
  /\ probe = NoProbe
  /\ Elsewhere

(* ---- helpers ------------------------------------------------------- *)
Entry(tag, arg) == [tag |-> tag, arg |-> arg]

\* line 195: "M240" in line
HasMarker(line) == \E i \in DOMAIN line.text : line.text[i] = "M240"

\* \s* from token i on: the index of the first token that is not a blank
AfterBlanks(text, i) ==
  CHOOSE j \in i..(Len(text) + 1) :
    /\ \A k \in i..(j - 1) : text[k] = " "
    /\ j = Len(text) + 1 \/ text[j] # " "

\* the number a tag is followed by when its last letter is token i
NumberAfter(text, i) ==
  LET j == AfterBlanks(text, i + 1) IN
    IF j <= Len(text) /\ IsNumber(text[j]) THEN text[j] ELSE NoMatch

\* the leftmost of a set of token indexes
Leftmost(hits) == CHOOSE i \in hits : \A j \in hits : i <= j

\* variant: the height pattern accepts any tag that starts with Z
SearchZ_AnyZTag(text) ==
  LET last(i) == IF i < Len(text) /\ text[i + 1] = "N" THEN i + 1 ELSE i
      hits == {i \in DOMAIN text : text[i] = "Z" /\ NumberAfter(text, last(i)) # NoMatch}
  IN IF hits = {} THEN NoMatch ELSE NumberAfter(text, last(Leftmost(hits)))

\* line 200: re.search(r'Z\s*([+-]?\d*\.?\d+)', line), group 1 of the leftmost match
SearchZ(text) ==
  LET hits == {i \in DOMAIN text : text[i] = "Z" /\ NumberAfter(text, i) # NoMatch}
  IN IF hits = {} THEN NoMatch ELSE NumberAfter(text, Leftmost(hits))

\* line 201: re.search(r'ZN\s*([+-]?\d*\.?\d+)', line), group 1 of the leftmost match
SearchZN(text) ==
  LET hits == {i \in DOMAIN text : /\ text[i] = "Z"
                                    /\ i < Len(text)
                                    /\ text[i + 1] = "N"
                                    /\ NumberAfter(text, i + 1) # NoMatch}
  IN IF hits = {} THEN NoMatch ELSE NumberAfter(text, Leftmost(hits) + 1)

\* variant: the height alone makes the line a usable trigger
ParseOk_HeightOnly(line) == SearchZ(line.text) # NoMatch

\* lines 199-204: both regular expressions must find their field
ParseOk(line) == SearchZ(line.text) # NoMatch /\ SearchZN(line.text) # NoMatch

\* variant: the hook does not look at is_printing()
IsTrigger_AnyState(line) == HasMarker(line) /\ ParseOk(line)

\* lines 189-204: the line is taken as a trigger
IsTrigger(line) == printing /\ HasMarker(line) /\ ParseOk(line)

FreeSlots == {w \in Workers : worker[w].pc = "unborn"}

\* the slot the next started thread takes
NextSlot == CHOOSE w \in FreeSlots : \A v \in FreeSlots : w <= v

\* variant: the started sequence begins with the retract
Started_AtRetract(line) == [NewWorker EXCEPT !.pc = "retract", !.cmd = line,
                                             !.layer_z = SearchZ(line.text),
                    !.layer_num = SearchZN(line.text)]

\* lines 211-216: the thread object created for the trigger
Started(line) == [NewWorker EXCEPT !.pc = "start", !.cmd = line,
                                   !.layer_z = SearchZ(line.text),
                    !.layer_num = SearchZN(line.text)]

\* set_job_on_hold(False): the counter never goes below zero
Released(n) == IF n > 0 THEN n - 1 ELSE 0

\* variant: the camera offset is subtracted on the X axis
MoveTarget_XOffsetNegated(pos, rx_, ry_, rz_) ==
  [x |-> pos.x + (rx_ - CAM_X_OFFSET) * 100,
   y |-> pos.y + (CAM_Y_OFFSET + ry_) * 100,
   z |-> pos.z + (CAM_Z_OFFSET + rz_) * 100,
   e |-> pos.e]

\* lines 293-295: target = current_pos + CAM_*_OFFSET + random.randint(-10, 10)
MoveTarget(pos, rx_, ry_, rz_) ==
  [x |-> pos.x + (CAM_X_OFFSET + rx_) * 100,
   y |-> pos.y + (CAM_Y_OFFSET + ry_) * 100,
   z |-> pos.z + (CAM_Z_OFFSET + rz_) * 100,
   e |-> pos.e]

\* variant: the return move undoes the fixed camera offset from the target
ReturnTarget_FromTarget(w) ==
  [x |-> worker[w].target.x - CAM_X_OFFSET * 100,
   y |-> worker[w].target.y - CAM_Y_OFFSET * 100,
   z |-> worker[w].target.z - CAM_Z_OFFSET * 100,
   e |-> worker[w].target.e]

\* line 319: the return move is formatted from current_pos
ReturnTarget(w) == worker[w].current_pos.pos

(* ---- the device ----------------------------------------------------- *)
\* the position after one more instruction has run
DevAfter(d, tag, arg) ==
  CASE tag = "G1" -> arg
    [] tag \in {"move", "return"} -> [d EXCEPT !.x = arg.x, !.y = arg.y, !.z = arg.z]
    [] tag = "retract" -> [d EXCEPT !.e = @ - 70]
    [] tag = "unretract" -> [d EXCEPT !.e = @ + 70]
    [] OTHER -> d

\* position requests armed so far: the query is the first call of a worker
Requests == Cardinality({v \in Workers : worker[v].log # <<>>})

\* the calls a worker has made so far, with their arguments
Logged(w, tag, arg) == Append(worker[w].log, Entry(tag, arg))

\* line 367: every field is \d+\.\d+, so a negative coordinate does not match
PosMatched(p) == p.x >= 0 /\ p.y >= 0 /\ p.z >= 0 /\ p.e >= 0

(* ---- variable groups ------------------------------------------------ *)
pluginv == <<settings, octo, lc, thread, audit>>
lifev == <<printing, prints, capture_in_progress, jobModes, probe, pluginv, cam>>
jobv == <<jobSent, jobOut, jobpc, jobLine>>
holdv == <<holdCount, acquires, releases, failedAcquires>>
corrv == <<waiting_for_position, position_event, position_response, rx>>

(* ---- print lifecycle: on_event ------------------------------------- *)
PrintStarted ==
  /\ ~printing
  /\ prints < MaxPrints
  /\ printing' = TRUE
  /\ prints' = prints + 1
  /\ capture_in_progress' = FALSE
  /\ UNCHANGED <<jobv, holdv, corrv, pending, dev, worker, jobModes, probe, pluginv, cam>>

PrintEnded ==
  /\ printing
  /\ printing' = FALSE
  /\ capture_in_progress' = FALSE
  /\ UNCHANGED <<prints, jobv, holdv, corrv, pending, dev, worker, jobModes, probe,
                 pluginv, cam>>

(* ---- the job producer: on_gcode_queuing on the job's lines ---------- *)
JobReady ==
  /\ printing
  /\ jobpc = "run"
  /\ holdCount = 0
  /\ jobSent < MaxJobLines

\* lines 192-204, 227: not a usable trigger, the line passes through
JobPass ==
  /\ JobReady
  /\ \E line \in JobLines :
       /\ ~IsTrigger(line)
       /\ jobLine' = line
       /\ dev' = DevAfter(dev, IF HasMarker(line) THEN "M240" ELSE "G1", line.pos)
  /\ jobSent' = jobSent + 1
  /\ jobOut' = jobOut + 1
  /\ UNCHANGED <<lifev, jobpc, holdv, corrv, pending, worker>>

\* lines 207-216: hold acquired, worker thread started
JobTrigger ==
  /\ JobReady
  /\ FreeSlots # {}
  /\ \E line \in JobLines :
       /\ IsTrigger(line)
       /\ jobLine' = line
       /\ worker' = [worker EXCEPT ![NextSlot] = Started(line)]
  /\ holdCount' = holdCount + 1
  /\ acquires' = acquires + 1
  /\ jobpc' = "release"
  /\ jobSent' = jobSent + 1
  /\ UNCHANGED <<lifev, jobOut, releases, failedAcquires, corrv, pending, dev>>

\* variant: the worker thread is started although the hold was refused
JobTriggerNoHold_StartAnyway ==
  /\ JobReady
  /\ FreeSlots # {}
  /\ \E line \in JobLines :
       /\ IsTrigger(line)
       /\ jobLine' = line
       /\ dev' = DevAfter(dev, "M240", line.pos)
       /\ worker' = [worker EXCEPT ![NextSlot] = Started(line)]
  /\ failedAcquires' = failedAcquires + 1
  /\ jobSent' = jobSent + 1
  /\ jobOut' = jobOut + 1
  /\ UNCHANGED <<lifev, jobpc, holdCount, acquires, releases, corrv, pending>>

\* variant: the release call sits outside the "if acquired" block
JobTriggerNoHold_ReleaseAnyway ==
  /\ JobReady
  /\ \E line \in JobLines :
       /\ IsTrigger(line)
       /\ jobLine' = line
       /\ dev' = DevAfter(dev, "M240", line.pos)
  /\ failedAcquires' = failedAcquires + 1
  /\ holdCount' = Released(holdCount)
  /\ releases' = releases + 1
  /\ jobSent' = jobSent + 1
  /\ jobOut' = jobOut + 1
  /\ UNCHANGED <<lifev, jobpc, acquires, corrv, pending, worker>>

\* lines 207, 227: set_job_on_hold(True) returned False, the line passes through
JobTriggerNoHold ==
  /\ JobReady
  /\ \E line \in JobLines :
       /\ IsTrigger(line)
       /\ jobLine' = line
       /\ dev' = DevAfter(dev, "M240", line.pos)
  /\ failedAcquires' = failedAcquires + 1
  /\ jobSent' = jobSent + 1
  /\ jobOut' = jobOut + 1
  /\ UNCHANGED <<lifev, jobpc, holdCount, acquires, releases, corrv, pending, worker>>

\* lines 219-223: hold released, the trigger line is suppressed
JobRelease ==
  /\ jobpc = "release"
  /\ holdCount' = Released(holdCount)
  /\ releases' = releases + 1
  /\ jobpc' = "run"
  /\ UNCHANGED <<lifev, jobSent, jobOut, jobLine, acquires, failedAcquires, corrv,
                 pending, dev, worker>>

\* lines 189-190: a line queued while no job is printing passes through
IdlePass ==
  /\ ~printing
  /\ jobpc = "run"
  /\ jobSent < MaxJobLines
  /\ \E line \in JobLines :
       /\ ~IsTrigger(line)
       /\ jobLine' = line
       /\ dev' = DevAfter(dev, IF HasMarker(line) THEN "M240" ELSE "G1", line.pos)
  /\ jobSent' = jobSent + 1
  /\ jobOut' = jobOut + 1
  /\ UNCHANGED <<lifev, jobpc, holdv, corrv, pending, worker>>

(* ---- the capture worker: _do_capture_sequence_async ------------------ *)
\* a printer.commands() call of worker w: logged, and run by the device
Send(w, pc, tag, arg) ==
  /\ worker' = [worker EXCEPT ![w].pc = pc, ![w].log = Logged(w, tag, arg)]
  /\ dev' = DevAfter(dev, tag, arg)

\* variant: the request does not clear the event and the stored response
WorkerQuery_NoClear(w) ==
  /\ worker[w].pc = "start"
  /\ waiting_for_position' = TRUE
  /\ worker' = [worker EXCEPT ![w].pc = "wait",
                              ![w].log = Logged(w, "position", NoPos),
                              ![w].ticket = Requests + 1,
                              ![w].sequential = ~rx.set]
  /\ dev' = DevAfter(dev, "position", NoPos)
  /\ pending' = Append(pending, [set |-> TRUE, req |-> w, pos |-> dev, seq |-> 0])
  /\ UNCHANGED <<lifev, jobv, holdv, position_event, position_response, rx>>

\* lines 235, 260-266: sleep, arm the single slot, send M400 + M114
\* (ticket: the number of this request; sequential: no earlier report is
\* still being stored by gcode_received when the request is armed)
WorkerQuery(w) ==
  /\ worker[w].pc = "start"
  /\ position_event' = FALSE
  /\ position_response' = NoResponse
  /\ waiting_for_position' = TRUE
  /\ worker' = [worker EXCEPT ![w].pc = "wait",
                              ![w].log = Logged(w, "position", NoPos),
                              ![w].ticket = Requests + 1,
                              ![w].sequential = ~rx.set]
  /\ dev' = DevAfter(dev, "position", NoPos)
  /\ pending' = Append(pending, [set |-> TRUE, req |-> w, pos |-> dev, seq |-> 0])
  /\ UNCHANGED <<lifev, jobv, holdv, rx>>

\* lines 269-270: the event was set, the stored response is the result
WakeWait(w) ==
  /\ worker[w].pc = "wait"
  /\ position_event
  /\ worker' = [worker EXCEPT ![w].pc = "fin", ![w].current_pos = position_response]
  /\ UNCHANGED <<lifev, jobv, holdv, corrv, pending, dev>>

\* variant: wait() without a timeout returns only once the event is set
TimeoutWait_Unbounded(w) ==
  /\ worker[w].pc = "wait"
  /\ position_event
  /\ worker' = [worker EXCEPT ![w].pc = "fin", ![w].current_pos = position_response]
  /\ UNCHANGED <<lifev, jobv, holdv, corrv, pending, dev>>

\* lines 269, 271-273: wait(5.0) ran out, the result is None
TimeoutWait(w) ==
  /\ worker[w].pc = "wait"
  /\ ~position_event
  /\ worker' = [worker EXCEPT ![w].pc = "fin", ![w].current_pos = NoResponse,
                              ![w].result = "timeout"]
  /\ UNCHANGED <<lifev, jobv, holdv, corrv, pending, dev>>

\* variant: the sequence goes on to the retract without a position
WorkerFinally_Continue(w) ==
  /\ worker[w].pc = "fin"
  /\ waiting_for_position' = FALSE
  /\ worker' = [worker EXCEPT ![w].pc = "retract"]
  /\ UNCHANGED <<lifev, jobv, holdv, position_event, position_response, rx,
                 pending, dev>>

\* lines 275-276, 239-243: finally clears the flag; no position ends the sequence
WorkerFinally(w) ==
  /\ worker[w].pc = "fin"
  /\ waiting_for_position' = FALSE
  /\ worker' = [worker EXCEPT ![w].pc =
                  IF worker[w].current_pos.set THEN "retract" ELSE "done"]
  /\ UNCHANGED <<lifev, jobv, holdv, position_event, position_response, rx,
                 pending, dev>>

\* variant: the capture follows the retract, the outbound move is left out
WorkerRetract_SkipMove(w) ==
  /\ worker[w].pc = "retract"
  /\ Send(w, "capture", "retract", NoPos)
  /\ UNCHANGED <<lifev, jobv, holdv, corrv, pending>>

\* lines 281-290: M83, G1 E-0.7, M400
WorkerRetract(w) ==
  /\ worker[w].pc = "retract"
  /\ Send(w, "move", "retract", NoPos)
  /\ UNCHANGED <<lifev, jobv, holdv, corrv, pending>>

\* lines 292-306: draw the offsets, G90, G0 to the target, M400
WorkerMove(w) ==
  /\ worker[w].pc = "move"
  /\ \E d \in Draws :
       LET t == MoveTarget(worker[w].current_pos.pos, d[1], d[2], d[3]) IN
         /\ worker' = [worker EXCEPT ![w].pc = "capture", ![w].target = t,
                                     ![w].log = Logged(w, "move", t)]
         /\ dev' = DevAfter(dev, "move", t)
  /\ UNCHANGED <<lifev, jobv, holdv, corrv, pending>>

\* line 310: self._camera.capture_image() is entered
CaptureBegin(w) ==
  /\ worker[w].pc = "capture"
  /\ worker' = [worker EXCEPT ![w].pc = "capturing",
                              ![w].log = Logged(w, "capture", NoPos)]
  /\ UNCHANGED <<lifev, jobv, holdv, corrv, pending, dev>>

\* lines 310-311: capture_image() returned an image
CaptureOk(w) ==
  /\ worker[w].pc = "capturing"
  /\ worker' = [worker EXCEPT ![w].pc = "save"]
  /\ UNCHANGED <<lifev, jobv, holdv, corrv, pending, dev>>

\* where the sequence goes when capture_image() raises: lines 336-338, 248
AfterCaptureFailed == "done"

\* variant: the error of capture_image() reaches the job, which is cancelled
CaptureFailed_CancelsJob(w) ==
  /\ worker[w].pc = "capturing"
  /\ worker' = [worker EXCEPT ![w].pc = AfterCaptureFailed,
                              ![w].result = "capture_failed"]
  /\ printing' = FALSE
  /\ UNCHANGED <<prints, capture_in_progress, jobModes, probe, pluginv, cam, jobv, holdv, corrv,
                 pending, dev>>

\* lines 310, 336-338, 248: capture_image() raised, the sequence returns False
CaptureFailed(w) ==
  /\ worker[w].pc = "capturing"
  /\ worker' = [worker EXCEPT ![w].pc = AfterCaptureFailed,
                              ![w].result = "capture_failed"]
  /\ UNCHANGED <<lifev, jobv, holdv, corrv, pending, dev>>

\* lines 314, 340-360: image and metadata written
SaveOk(w) ==
  /\ worker[w].pc = "save"
  /\ worker' = [worker EXCEPT ![w].pc = "return",
                              ![w].log = Logged(w, "save", NoPos)]
  /\ UNCHANGED <<lifev, jobv, holdv, corrv, pending, dev>>

\* where the sequence goes when _save_image_and_metadata raises: lines 336-338, 248
AfterSaveFailed == "done"

\* lines 314, 336-338, 248: img.save or json.dump raised, the sequence returns False
SaveFailed(w) ==
  /\ worker[w].pc = "save"
  /\ worker' = [worker EXCEPT ![w].pc = AfterSaveFailed,
                              ![w].result = "save_failed"]
  /\ UNCHANGED <<lifev, jobv, holdv, corrv, pending, dev>>

\* lines 316-324: G0 back to current_pos, M400
WorkerReturn(w) ==
  /\ worker[w].pc = "return"
  /\ Send(w, "unretract", "return", ReturnTarget(w))
  /\ UNCHANGED <<lifev, jobv, holdv, corrv, pending>>

\* lines 326-334: M83, G1 E0.7, M400; the sequence returns True
WorkerUnretract(w) ==
  /\ worker[w].pc = "unretract"
  /\ worker' = [worker EXCEPT ![w].pc = "resume", ![w].result = "ok",
                              ![w].log = Logged(w, "unretract", NoPos)]
  /\ dev' = DevAfter(dev, "unretract", NoPos)
  /\ UNCHANGED <<lifev, jobv, holdv, corrv, pending>>

\* lines 248-251 with 189-204, 227: the re-sent original command passes through
ResumePass(w) ==
  /\ worker[w].pc = "resume"
  /\ ~IsTrigger(worker[w].cmd)
  /\ Send(w, "done", "M240", NoPos)
  /\ UNCHANGED <<lifev, jobv, holdv, corrv, pending>>

\* lines 248-251 with 207, 227: the hook found a trigger, the hold was refused
ResumeNoHold(w) ==
  /\ worker[w].pc = "resume"
  /\ IsTrigger(worker[w].cmd)
  /\ Send(w, "done", "M240", NoPos)
  /\ failedAcquires' = failedAcquires + 1
  /\ UNCHANGED <<lifev, jobv, holdCount, acquires, releases, corrv, pending>>

\* lines 248-251 with 207-216: the hook found a trigger and started a new worker
ResumeTrigger(w) ==
  /\ worker[w].pc = "resume"
  /\ IsTrigger(worker[w].cmd)
  /\ FreeSlots # {}
  /\ worker' = [worker EXCEPT ![w].pc = "release",
                              ![NextSlot] = Started(worker[w].cmd)]
  /\ holdCount' = holdCount + 1
  /\ acquires' = acquires + 1
  /\ UNCHANGED <<lifev, jobv, releases, failedAcquires, corrv, pending, dev>>

\* lines 219-223 run by the worker: hold released, the re-sent line suppressed
ResumeRelease(w) ==
  /\ worker[w].pc = "release"
  /\ holdCount' = Released(holdCount)
  /\ releases' = releases + 1
  /\ worker' = [worker EXCEPT ![w].pc = "done"]
  /\ UNCHANGED <<lifev, jobv, acquires, failedAcquires, corrv, pending, dev>>

(* ---- the serial reader: gcode_received ------------------------------ *)
\* variant: a matching report is delivered whether or not a request is armed
DeviceReport_IgnoresFlag ==
  /\ ~rx.set
  /\ pending # <<>>
  /\ pending' = Tail(pending)
  /\ IF PosMatched(Head(pending).pos)
     THEN /\ waiting_for_position' = FALSE
          /\ position_event' = TRUE
          /\ rx' = [Head(pending) EXCEPT !.seq = Requests]
     ELSE UNCHANGED <<waiting_for_position, position_event, rx>>
  /\ UNCHANGED <<lifev, jobv, holdv, position_response, dev, worker>>

\* lines 365-379: the device answers its oldest open M114; flag and event
DeviceReport ==
  /\ ~rx.set
  /\ pending # <<>>
  /\ pending' = Tail(pending)
  /\ IF waiting_for_position /\ PosMatched(Head(pending).pos)
     THEN /\ waiting_for_position' = FALSE
          /\ position_event' = TRUE
          /\ rx' = [Head(pending) EXCEPT !.seq = Requests]
     ELSE UNCHANGED <<waiting_for_position, position_event, rx>>
  /\ UNCHANGED <<lifev, jobv, holdv, position_response, dev, worker>>

\* lines 367, 372-373: a report that lacks one of the four fields, or the
\* "Count: A:" tail, does not match the pattern and is ignored
DevicePartialReport ==
  /\ ~rx.set
  /\ pending # <<>>
  /\ pending' = Tail(pending)
  /\ UNCHANGED <<lifev, jobv, holdv, corrv, dev, worker>>

\* line 380: the parsed position is stored after the event was set
StoreResponse ==
  /\ rx.set
  /\ position_response' = rx
  /\ rx' = NoResponse
  /\ UNCHANGED <<lifev, jobv, holdv, waiting_for_position, position_event,
                 pending, dev, worker>>

(* ---- specification -------------------------------------------------- *)
WorkerStep(w) ==
  \/ WorkerQuery(w) \/ WakeWait(w) \/ TimeoutWait(w) \/ WorkerFinally(w)
  \/ WorkerRetract(w) \/ WorkerMove(w) \/ CaptureBegin(w) \/ CaptureOk(w)
  \/ CaptureFailed(w) \/ SaveOk(w) \/ SaveFailed(w) \/ WorkerReturn(w)
  \/ WorkerUnretract(w) \/ ResumePass(w) \/ ResumeNoHold(w)
  \/ ResumeTrigger(w) \/ ResumeRelease(w)

Next ==
  \/ PrintStarted \/ PrintEnded
  \/ JobPass \/ JobTrigger \/ JobTriggerNoHold \/ JobRelease \/ IdlePass
  \/ \E w \in Workers : WorkerStep(w)
  \/ DeviceReport \/ DevicePartialReport \/ StoreResponse

Spec == Init /\ [][Next]_vars

\* every thread that can take a step eventually takes one
FairSpec ==
  /\ Spec
  /\ \A w \in Workers : WF_vars(WorkerStep(w))
  /\ WF_vars(JobRelease)
  /\ WF_vars(StoreResponse)

TypeOK ==
  /\ printing \in BOOLEAN
  /\ jobpc \in {"run", "release"}
  /\ holdCount \in 0..(MaxWorkers + 1)
  /\ \A w \in Workers :
       worker[w].pc \in {"unborn", "start", "wait", "fin", "retract", "move",
                         "capture", "capturing", "save", "return", "unretract",
                         "resume", "release", "done"}

(* ==== properties ====================================================== *)
Tags(w) == {worker[w].log[i].tag : i \in DOMAIN worker[w].log}

\* the worker has sent its first instruction and not yet returned
MidSequence(w) ==
  worker[w].pc \in {"wait", "fin", "retract", "move", "capture", "capturing",
                    "save", "return", "unretract"}

\* the capture thread was started and has not terminated
Active(w) == worker[w].pc \notin {"unborn", "done"}

\* on_gcode_queuing calls between thread.start() and set_job_on_hold(False)
Releasing ==
  (IF jobpc = "release" THEN 1 ELSE 0)
  + Cardinality({w \in Workers : worker[w].pc = "release"})

\* C1: between the first and the last instruction of a capture sequence the
\* job hold is held, so that no job line can reach the device in between.
C1_HoldHeldDuringSequence ==
  \A w \in Workers : MidSequence(w) => holdCount > 0

\* C2: while a capture sequence is active no step acquires the hold again
\* or starts another worker.
C2_SecondTriggerDiscarded ==
  [][(\E w \in Workers : Active(w)) =>
       /\ acquires' = acquires
       /\ \A v \in Workers : worker[v].pc = "unborn" => worker'[v].pc = "unborn"]_vars

\* C3: releases are paired with successful acquires: never more releases
\* than acquires, the only unreleased acquires are those of on_gcode_queuing
\* calls still between acquire and release, and the hold counter is exactly
\* what those calls hold, whatever became of the started sequences.
C3_ReleasePairedWithAcquire ==
  /\ releases <= acquires
  /\ acquires - releases = Releasing
  /\ holdCount = acquires - releases

\* C3 witness: one acquire failed, one succeeded and was released once, and
\* the sequence it started ended in a position timeout.
C3_Witness ==
  /\ failedAcquires = 1
  /\ acquires = 1
  /\ releases = 1
  /\ \E w \in Workers : worker[w].pc = "done" /\ worker[w].result = "timeout"

\* C4: every started capture sequence eventually terminates, with the job
\* hold not held.
C4_SequenceTerminates ==
  \A w \in Workers :
    [](worker[w].pc # "unborn" => <>(worker[w].pc = "done" /\ holdCount = 0))

\* C4 witness: a sequence whose position wait timed out has terminated and
\* the hold is free while the print is still running.
C4_Witness ==
  /\ printing
  /\ holdCount = 0
  /\ jobpc = "run"
  /\ \E w \in Workers :
       /\ worker[w].pc = "done"
       /\ worker[w].result = "timeout"
       /\ Tags(w) = {"position"}

\* C5: a sequence whose capture failed saved nothing and still issued the
\* return move before it terminated.
C5_ReturnAfterCaptureFailed ==
  \A w \in Workers :
    (worker[w].pc = "done" /\ worker[w].result = "capture_failed") =>
      ("save" \notin Tags(w) /\ "return" \in Tags(w))

\* C6: a sequence whose save failed still issued the return move and the
\* un-retract before it terminated.
C6_ReturnAfterSaveFailed ==
  \A w \in Workers :
    (worker[w].pc = "done" /\ worker[w].result = "save_failed") =>
      ("return" \in Tags(w) /\ "unretract" \in Tags(w))

\* C7: once the job has ended, a capture sequence in flight sends no further
\* instruction, and the hold is free as soon as no on_gcode_queuing call is
\* still on its way to its release.
C7_NoInstructionAfterJobEnd ==
  [][(~printing /\ prints > 0) =>
       /\ \A w \in Workers : worker'[w].log = worker[w].log
       /\ (Releasing' = 0 => holdCount' = 0)]_vars

\* C8: every return move a sequence issued goes to the X, Y, Z of the
\* position the sequence received for its position query.
C8_ReturnMoveIsOrigin ==
  \A w \in Workers : \A i \in DOMAIN worker[w].log :
    worker[w].log[i].tag = "return" =>
      /\ worker[w].current_pos.set
      /\ worker[w].log[i].arg.x = worker[w].current_pos.pos.x
      /\ worker[w].log[i].arg.y = worker[w].current_pos.pos.y
      /\ worker[w].log[i].arg.z = worker[w].current_pos.pos.z

\* C8 witness: the return move was issued after an outbound move that drew
\* the offsets (-10, 10, 0) from an origin the job had moved the head to.
C8_Witness ==
  \E w \in Workers :
    /\ worker[w].pc = "unretract"
    /\ worker[w].current_pos.pos = JobPos
    /\ worker[w].target = MoveTarget(JobPos, -10, 10, 0)

\* C9: every outbound move goes, on each axis, to the origin coordinate plus
\* the fixed camera offset plus an integer in [-10, 10].
C9_OutboundTarget ==
  \A w \in Workers : \A i \in DOMAIN worker[w].log :
    worker[w].log[i].tag = "move" =>
      LET o == worker[w].current_pos.pos
          t == worker[w].log[i].arg
      IN /\ \E r \in RandLo..RandHi : t.x = o.x + CAM_X_OFFSET * 100 + r * 100
         /\ \E r \in RandLo..RandHi : t.y = o.y + CAM_Y_OFFSET * 100 + r * 100
         /\ \E r \in RandLo..RandHi : t.z = o.z + CAM_Z_OFFSET * 100 + r * 100

\* C9 witness: origin (100.00, 50.00, 12.40) with displacement (-30, 22, 61)
\* gave the target (70.00, 72.00, 73.40).
C9_Witness ==
  \E w \in Workers :
    /\ "move" \in Tags(w)
    /\ worker[w].current_pos.pos.x = 10000
    /\ worker[w].current_pos.pos.y = 5000
    /\ worker[w].current_pos.pos.z = 1240
    /\ worker[w].target.x = 7000
    /\ worker[w].target.y = 7200
    /\ worker[w].target.z = 7340

\* C10: the report the device sends in answer to a request whose wait has
\* timed out is never the result of a later position request.
C10_LateAnswerDropped ==
  \A w \in Workers :
    worker[w].current_pos.set =>
      LET r == worker[w].current_pos.req
      IN ~(r # w /\ worker[r].result = "timeout")

\* C11: a wait that returned because the event was set (not by timeout) has
\* the parsed position as its result, never an empty one.
C11_WokenWaiterHasPosition ==
  \A w \in Workers :
    (worker[w].pc = "fin" /\ worker[w].result # "timeout") =>
      worker[w].current_pos.set

\* C12: while an earlier position request is armed and waited on, no other
\* request arms the single slot: the second request fails instead.
C12_SecondRequestFailsFast ==
  [][(waiting_for_position /\ \E v \in Workers : worker[v].pc = "wait") =>
       \A w \in Workers : worker[w].pc = "start" => worker'[w].pc # "wait"]_vars

\* C13: at most one worker is armed and waiting for a position report.
C13_OneOutstandingRequest ==
  Cardinality({w \in Workers : worker[w].pc = "wait"}) <= 1

\* C14: for sequential request / resolve / wait triples (no earlier report
\* is still being stored when the request is armed), the position a wait
\* returns was parsed from a report that arrived after its own request was
\* armed: no value stored for an earlier triple is returned.
C14_NoCrossTalk ==
  \A w \in Workers :
    (worker[w].current_pos.set /\ worker[w].sequential) =>
      worker[w].current_pos.seq >= worker[w].ticket

\* C14 witness: two triples, one after the other, returned two different
\* positions, each from the report that answered its own request.
C14_Witness ==
  \E v, w \in Workers :
    /\ worker[v].ticket = 1 /\ worker[w].ticket = 2
    /\ worker[v].sequential /\ worker[w].sequential
    /\ worker[v].current_pos.set /\ worker[w].current_pos.set
    /\ worker[v].current_pos.req = v /\ worker[w].current_pos.req = w
    /\ worker[v].current_pos.seq = 1 /\ worker[w].current_pos.seq = 2
    /\ worker[v].current_pos.pos # worker[w].current_pos.pos

\* C15: at most one capture_image call is in progress.
C15_CapturesDoNotOverlap ==
  Cardinality({w \in Workers : worker[w].pc = "capturing"}) <= 1

\* C16: a step on which the hold was refused starts no worker, touches
\* neither the hold nor any sequence, and the trigger line goes on to the
\* device: as a job line, or as the line its worker re-sent.
C16_RefusedHoldDropsSequence ==
  [][failedAcquires' # failedAcquires =>
       /\ \A v \in Workers : worker[v].pc = "unborn" => worker'[v].pc = "unborn"
       /\ holdCount' = holdCount /\ acquires' = acquires /\ releases' = releases
       /\ \/ jobOut' = jobOut + 1 /\ worker' = worker
          \/ \E w \in Workers :
               /\ worker[w].pc = "resume"
               /\ jobOut' = jobOut
               /\ worker' = [worker EXCEPT ![w].pc = "done",
                                           ![w].log = Logged(w, "M240", NoPos)]]_vars

\* C16 witness: the job's only trigger was refused the hold: it went to the
\* device, no worker exists and nothing else was sent.
C16_Witness ==
  /\ failedAcquires = 1
  /\ jobSent = 1
  /\ jobOut = 1
  /\ acquires = 0
  /\ dev = Home
  /\ \A w \in Workers : worker[w].pc = "unborn"

\* C17: a sequence whose position wait timed out sent nothing but the
\* position query: no retract, no move, no capture.
C17_TimeoutIsHardAbort ==
  \A w \in Workers :
    worker[w].result = "timeout" =>
      (worker[w].pc \in {"fin", "done"} /\ Tags(w) = {"position"})

\* C17 witness: the sequence ended by timeout while the device still owes
\* the report for its query.
C17_Witness ==
  \E w \in Workers :
    /\ worker[w].pc = "done"
    /\ worker[w].result = "timeout"
    /\ pending # <<>>
    /\ Head(pending).req = w

\* C18: the capture is invoked only after the device confirmed the outbound
\* move: the call before the capture is a correlated request (a position
\* query sent after the move), not the move itself.
C18_CaptureAfterMoveConfirmed ==
  \A w \in Workers : \A i \in DOMAIN worker[w].log :
    worker[w].log[i].tag = "capture" =>
      (i > 1 /\ worker[w].log[i - 1].tag = "position")

\* the calls of one sequence, in the order the code makes them
StepOrder == <<"position", "retract", "move", "capture", "save", "return",
               "unretract", "M240">>

\* C19: the calls a sequence has made are an initial part of: position
\* query, retract, move out, capture, save, move back, un-retract, re-sent
\* trigger; so none comes before an earlier one and none is made twice.
C19_StepsInOrder ==
  \A w \in Workers :
    /\ Len(worker[w].log) <= Len(StepOrder)
    /\ \A i \in DOMAIN worker[w].log : worker[w].log[i].tag = StepOrder[i]

\* C19 witness: a sequence has made all its calls through the un-retract.
C19_Witness ==
  \E w \in Workers :
    /\ worker[w].pc = "resume"
    /\ Len(worker[w].log) = 7
    /\ worker[w].log[7].tag = "unretract"

DevModes ==
  [positioning |-> IF \E w \in Workers : Tags(w) \cap {"move", "return"} # {}
                   THEN "absolute" ELSE jobModes.positioning,
   extruder |-> IF \E w \in Workers : Tags(w) \cap {"retract", "unretract"} # {}
                THEN "relative" ELSE jobModes.extruder]

\* C21: when a sequence has completed successfully the device is in its
\* pre-trigger state again: the X, Y, Z and filament position the sequence
\* started from, and the positioning and extruder modes of the job.
C21_DeviceRestored ==
  \A w \in Workers :
    worker[w].pc = "resume" =>
      /\ dev.x = worker[w].current_pos.pos.x
      /\ dev.y = worker[w].current_pos.pos.y
      /\ dev.z = worker[w].current_pos.pos.z
      /\ dev.e = worker[w].current_pos.pos.e
      /\ DevModes = jobModes

\* C22: every trigger marker of the job starts at most one sequence: the
\* command a worker sends again after its sequence is not taken as a new
\* trigger, and an aborted sequence is not started again.
C22_OneSequencePerMarker ==
  Cardinality({w \in Workers : worker[w].pc # "unborn"}) <= jobSent - jobOut

\* the sequence of worker w ended without success
Failed(w) == worker[w].result \in {"timeout", "capture_failed", "save_failed"}

\* C23: an error inside a capture sequence stays inside the worker: the step
\* in which a sequence fails changes nothing of the job producer, of the print
\* state or of the hold, so that the job can go on.
C23_FailureStaysInWorker ==
  [][\A w \in Workers :
       (~Failed(w) /\ Failed(w)') =>
         /\ jobv' = jobv
         /\ holdv' = holdv
         /\ printing' = printing]_vars

\* a sequence has failed and the job producer is free to queue its next line
C23_Witness ==
  \E w \in Workers :
    /\ worker[w].result = "capture_failed"
    /\ worker[w].pc = "done"
    /\ printing
    /\ jobpc = "run"
    /\ holdCount = 0
    /\ jobSent < MaxJobLines

\* C24: a line that carries the marker but lacks the height or the layer
\* number, or has a non-numeric one, is not a usable trigger: no hold acquire
\* is attempted, no sequence starts, and the line goes on to the device.
C24_MalformedTriggerPasses ==
  [][(jobSent' = jobSent + 1 /\ jobLine' \in {NoZNLine, NoZLine, BadZLine}) =>
       /\ holdv' = holdv
       /\ worker' = worker
       /\ jobpc' = jobpc
       /\ jobOut' = jobOut + 1]_vars

\* after a trigger, in the same print, a marker without the height was queued
C24_Witness ==
  /\ printing
  /\ acquires = 1
  /\ failedAcquires = 0
  /\ jobSent = 2
  /\ jobOut = 1
  /\ jobLine = NoZLine

\* C25: a position report that arrives while a request is armed is recognized
\* and delivered to the waiter, also when it has fewer than the four fields
\* X, Y, Z, E.
C25_PartialReportDelivered ==
  [][(pending # <<>> /\ pending' = Tail(pending) /\ waiting_for_position) =>
       (position_event' /\ ~waiting_for_position')]_vars

(* ==== the trigger parser on its own ==================================== *)
\* n blanks
Blanks(n) == [i \in 1..n |-> " "]

\* a trigger line with the height z and the layer number zn: zFirst gives the
\* order of the two fields, a and b the blanks between each tag and its
\* number, c the extra blanks in front of each field
TriggerText(z, zn, zFirst, a, b, c) ==
  LET zField == <<"Z">> \o Blanks(a) \o <<z>>
      znField == <<"Z", "N">> \o Blanks(b) \o <<zn>>
      gap == Blanks(1 + c)
  IN <<"M240">> \o gap \o (IF zFirst THEN zField \o gap \o znField
                                     ELSE znField \o gap \o zField)

\* the lines the parser is tried on, each with the values it was written from
Probes ==
  {[pc |-> "queued", text |-> TriggerText(z, zn, zFirst, a, b, c), z |-> z, zn |-> zn,
    layer_z |-> NoMatch, layer_num |-> NoMatch] :
     z \in {"12.40", "-0.5"}, zn \in {"37", "+8"}, zFirst \in BOOLEAN,
     a \in 0..MaxBlanks, b \in 0..MaxBlanks, c \in 0..MaxBlanks}

ParseInit ==
  /\ Constructed
  /\ probe \in Probes
  /\ Elsewhere

\* lines 200-201 applied to the line under test
ParseLine ==
  /\ probe.pc = "queued"
  /\ probe' = [probe EXCEPT !.pc = "parsed",
                            !.layer_z = SearchZ(probe.text),
                            !.layer_num = SearchZN(probe.text)]
  /\ UNCHANGED <<printing, prints, capture_in_progress, jobModes, jobv, holdv, corrv,
                 pending, dev, worker, pluginv, cam>>

ParseNext == ParseLine

ParseSpec == ParseInit /\ [][ParseNext]_vars

\* C26: for every valid trigger line, whatever the order of the height and
\* layer-number fields and however many blanks stand between a tag and its
\* number or between the fields, the parser extracts the same pair: the height
\* and the layer number the line was written from.
C26_OrderAndBlanksIgnored ==
  probe.pc = "parsed" => (probe.layer_z = probe.z /\ probe.layer_num = probe.zn)

\* parsed: the layer number first, blanks after both tags and between the fields
C26_Witness ==
  /\ probe.pc = "parsed"
  /\ probe.text = <<"M240", " ", " ", "Z", "N", " ", " ", "37", " ", " ", "Z", " ", "12.40">>
  /\ probe.layer_z = "12.40"
  /\ probe.layer_num = "37"

\* C27: while the printer is not printing, on_gcode_queuing never acquires
\* the hold (nor tries to) and never starts a sequence, and every line it is
\* given, a trigger marker included, goes on to the device.
C27_IdleNeverTriggers ==
  [][~printing =>
       /\ acquires' = acquires
       /\ failedAcquires' = failedAcquires
       /\ \A w \in Workers : worker[w].pc = "unborn" => worker'[w].pc = "unborn"
       /\ jobSent' = jobSent + 1 => jobOut' = jobOut + 1
       /\ \A w \in Workers :
            (worker[w].pc = "resume" /\ worker'[w].pc # "resume") =>
              (worker'[w].pc = "done" /\ "M240" \in Tags(w)')]_vars

\* a valid trigger line was queued before any print and went to the device
C27_Witness ==
  /\ ~printing
  /\ prints = 0
  /\ jobLine = TriggerLine
  /\ jobSent = 1
  /\ jobOut = 1
  /\ acquires = 0
  /\ failedAcquires = 0

\* C28: the trigger instruction that on_gcode_queuing suppressed is sent to
\* the device again by the worker, exactly once, however the sequence ends.
C28_TriggerResentOnce ==
  \A w \in Workers :
    worker[w].pc = "done" =>
      Cardinality({i \in DOMAIN worker[w].log : worker[w].log[i].tag = "M240"}) = 1

\* C29: a sequence that has issued the retract issues the un-retract before
\* it ends, and one that has issued the outbound move issues the return move
\* before it ends, on the failure paths too.
C29_RetractAndMoveUndone ==
  \A w \in Workers :
    worker[w].pc = "done" =>
      /\ "retract" \in Tags(w) => "unretract" \in Tags(w)
      /\ "move" \in Tags(w) => "return" \in Tags(w)

\* C30: when _get_current_position_sync returns, with a result or after a
\* timeout, the waiting flag is clear; and a position report received while
\* the flag is clear changes neither the stored response nor the event.
C30_FlagClearedAndHonoured ==
  [][/\ \A w \in Workers :
          (worker[w].pc = "fin" /\ worker'[w].pc # "fin") => ~waiting_for_position'
     /\ (pending # <<>> /\ pending' = Tail(pending) /\ ~waiting_for_position) =>
          UNCHANGED <<waiting_for_position, position_event, position_response, rx>>]_vars

\* a request timed out and returned, and its report came in afterwards or not
\* at all: nothing of it is left in the slot
C30_Witness ==
  /\ \E w \in Workers : worker[w].result = "timeout" /\ worker[w].pc = "done"
  /\ \A w \in Workers : worker[w].pc \in {"unborn", "done"}
  /\ pending = <<>>
  /\ ~waiting_for_position
  /\ ~position_event
  /\ ~position_response.set
  /\ ~rx.set

(* ==== the layer-interval plugin: LayerCaptureDatacollectPlugin.py ====== *)
seqv == <<printing, prints, capture_in_progress, jobModes, probe, jobv, holdv, corrv,
          pending, dev, worker>>

\* heights z (hundredths, multiples of a 0.2 layer) at which the floating-point
\* quotient (z - 0.2) / 0.2 of line 782 comes out just below the whole number,
\* so that int() gives one less: (0.6 - 0.2) / 0.2 = 1.9999999999999998
RoundedDown == {60, 140, 240, 260, 280, 300, 340, 380, 400, 460, 480, 500, 560, 580,
                600, 660, 680, 760, 780, 820}

\* variant: the quotient is taken exactly
EstimateLayer_Exact(z) == IF z <= 20 THEN 1 ELSE (z - 20) \div 20 + 1

\* lines 760-787 with the fallback layer height 0.2
EstimateLayer(z) ==
  IF z <= 20 THEN 1
  ELSE (z - 20) \div 20 + 1 - (IF z \in RoundedDown THEN 1 ELSE 0)

\* lines 741-755: the payload passes the guards and the layer estimate rose
LayerRose(l, old, new) ==
  /\ l.capture_active
  /\ settings.enabled
  /\ new > old
  /\ EstimateLayer(new) > l.current_layer

\* lines 754-756: the tracked layer and height after a Z-change event
ZChanged(l, old, new) ==
  IF LayerRose(l, old, new)
  THEN [l EXCEPT !.current_layer = EstimateLayer(new), !.current_z_height = new]
  ELSE l

\* lines 791-795: the condition of _check_capture_needed
CaptureNeeded(l) ==
  /\ l.current_layer > 0
  /\ l.current_layer % settings.layer_interval = 0
  /\ l.current_layer # l.last_captured_layer

Alive(th, t) == th[t].pc \notin {"unborn", "done"}

\* variant: _schedule_capture does not look at the running thread
CaptureRunning_Unchecked(l, th) == FALSE

\* line 802: self._capture_thread and self._capture_thread.is_alive()
CaptureRunning(l, th) == l.capture_thread # 0 /\ Alive(th, l.capture_thread)

\* the id the next started thread gets
NextThread == Cardinality({t \in Threads : thread[t].pc # "unborn"}) + 1

\* lines 739-758, 789-808: _on_z_change on a Z_CHANGE event, together with
\* _check_capture_needed and _schedule_capture; l and th are the plugin
\* attributes and threads as the step that caused the event leaves them
ZChange(l, th, old, new) ==
  LET l2 == ZChanged(l, old, new) IN
    IF LayerRose(l, old, new) /\ CaptureNeeded(l2) /\ ~CaptureRunning(l2, th)
    THEN /\ NextThread \in Threads
         /\ lc' = [l2 EXCEPT !.capture_thread = NextThread]
         /\ thread' = [th EXCEPT ![NextThread] =
                         [NewThread EXCEPT !.pc = "begin",
                                           !.scheduled_for = l2.current_layer]]
    ELSE /\ lc' = l2
         /\ thread' = th

\* variant: a print that starts with the plugin disabled is tracked all the same
OnPrintStarted_AlwaysActive(l) ==
  [l EXCEPT !.capture_active = TRUE, !.current_layer = 0, !.last_captured_layer = -1,
            !.current_z_height = 0, !.original_position = NoOriginal,
            !.movement_in_progress = FALSE, !.print_paused_for_capture = FALSE]

\* lines 640-660
OnPrintStarted(l) ==
  IF ~settings.enabled THEN l
  ELSE [l EXCEPT !.capture_active = TRUE, !.current_layer = 0, !.last_captured_layer = -1,
                 !.current_z_height = 0, !.original_position = NoOriginal,
                 !.movement_in_progress = FALSE, !.print_paused_for_capture = FALSE]

\* lines 662-684
OnPrintFinished(l) ==
  [l EXCEPT !.capture_active = FALSE, !.current_layer = 0, !.last_captured_layer = -1,
            !.current_z_height = 0, !.original_position = NoOriginal,
            !.movement_in_progress = FALSE, !.print_paused_for_capture = FALSE]

\* lines 720-726
OnDisconnected(l) ==
  IF l.capture_active
  THEN [l EXCEPT !.capture_active = FALSE, !.movement_in_progress = FALSE,
                 !.print_paused_for_capture = FALSE]
  ELSE l

\* lines 877-922: the grid around the centre at the capture height; only the
\* multi-position branch checks the boundaries
CalculateGridPositions(current_z) ==
  LET n == settings.grid_size
      capture_z == current_z + z_offset
      at(k) == [x |-> settings.grid_center_x + (2 * ((k - 1) % n) - (n - 1)) * (grid_spacing \div 2),
                y |-> settings.grid_center_y + (2 * ((k - 1) \div n) - (n - 1)) * (grid_spacing \div 2),
                z |-> capture_z]
      inside(p) == /\ min_x <= p.x /\ p.x <= max_x
                   /\ min_y <= p.y /\ p.y <= max_y
                   /\ 0 <= p.z /\ p.z <= settings.max_z
  IN IF n = 1
     THEN <<[x |-> settings.grid_center_x, y |-> settings.grid_center_y, z |-> capture_z]>>
     ELSE SelectSeq([k \in 1..(n * n) |-> at(k)], inside)

\* variant: only the lower boundaries are checked
ValidatePosition_LowerOnly(p) == min_x <= p.x /\ min_y <= p.y /\ 0 <= p.z

\* lines 1016-1041
ValidatePosition(p) ==
  /\ min_x <= p.x /\ p.x <= max_x
  /\ min_y <= p.y /\ p.y <= max_y
  /\ 0 <= p.z /\ p.z <= settings.max_z

\* lines 926-938: _send_gcode_command sends when the printer is ready or paused
CanSend == octo.state \in {"operational", "paused"}

\* lines 980-1014: _move_to_position sends a G1
MoveSends(p) == ValidatePosition(p) /\ settings.enable_movement /\ CanSend

\* lines 980-1014: _move_to_position returns True
MoveOk(p) == ValidatePosition(p) /\ (~settings.enable_movement \/ CanSend)

\* _move_to_position(p) called by a capture thread: the G1 that may go out
\* and the Z_CHANGE event it causes; l and th are the plugin attributes and
\* the threads as the caller leaves them
MoveTo(l, th, p) ==
  IF MoveSends(p)
  THEN /\ octo' = [octo EXCEPT !.currentZ = p.z]
       /\ audit' = [audit EXCEPT !.moves = @ \cup {p}, !.reached = @ \cup {p}]
       /\ ZChange(l, th, octo.currentZ, p.z)
  ELSE /\ octo' = octo
       /\ audit' = IF MoveOk(p) THEN [audit EXCEPT !.reached = @ \cup {p}] ELSE audit
       /\ lc' = l
       /\ thread' = th

(* ---- events of the printer -------------------------------------------- *)
\* PRINT_STARTED
LayerPrintStarted ==
  /\ octo.state = "operational"
  /\ octo.prints < MaxPrints
  /\ octo' = [octo EXCEPT !.state = "printing", !.currentZ = 0, !.jobLayer = 0,
                          !.prints = @ + 1]
  /\ lc' = OnPrintStarted(lc)
  /\ UNCHANGED <<seqv, cam, settings, thread, audit>>

\* PRINT_DONE, PRINT_FAILED, PRINT_CANCELLED
LayerPrintFinished ==
  /\ octo.state \in {"printing", "pausing", "paused"}
  /\ octo' = [octo EXCEPT !.state = "operational", !.pausedBy = "nobody"]
  /\ lc' = OnPrintFinished(lc)
  /\ UNCHANGED <<seqv, cam, settings, thread, audit>>

\* DISCONNECTED
LayerDisconnected ==
  /\ octo.state # "offline"
  /\ octo' = [octo EXCEPT !.state = "offline", !.pausedBy = "nobody"]
  /\ lc' = OnDisconnected(lc)
  /\ UNCHANGED <<seqv, cam, settings, thread, audit>>

\* the printer is connected again
LayerConnected ==
  /\ octo.state = "offline"
  /\ octo' = [octo EXCEPT !.state = "operational"]
  /\ UNCHANGED <<seqv, cam, settings, lc, thread, audit>>

\* the job moves up to its next layer: Z_CHANGE with the old and new height
JobLayerChange ==
  /\ octo.state = "printing"
  /\ octo.jobLayer < MaxLayers
  /\ octo' = [octo EXCEPT !.jobLayer = @ + 1, !.currentZ = 20 * (octo.jobLayer + 1)]
  /\ ZChange(lc, thread, octo.currentZ, 20 * (octo.jobLayer + 1))
  /\ UNCHANGED <<seqv, cam, settings, audit>>

\* the pause that was asked for takes effect
PauseCompletes ==
  /\ octo.state = "pausing"
  /\ octo' = [octo EXCEPT !.state = "paused"]
  /\ UNCHANGED <<seqv, cam, settings, lc, thread, audit>>

\* the user switches the plugin on or off in the settings
SettingsSaved ==
  /\ settings' = [settings EXCEPT !.enabled = ~@]
  /\ UNCHANGED <<seqv, cam, octo, lc, thread, audit>>

(* ---- the capture thread: _execute_capture_sequence --------------------- *)
Finished == [NewThread EXCEPT !.pc = "done"]

\* lines 813-815: no camera, the thread returns
ThreadNoCamera(t) ==
  /\ thread[t].pc = "begin"
  /\ ~lc.camera_available
  /\ thread' = [thread EXCEPT ![t] = Finished]
  /\ UNCHANGED <<seqv, cam, settings, octo, lc, audit>>

\* lines 820-823: the print is running, pause_print() is called
ThreadPause(t) ==
  /\ thread[t].pc = "begin"
  /\ lc.camera_available
  /\ octo.state = "printing"
  /\ octo' = [octo EXCEPT !.state = "pausing", !.pausedBy = "capture"]
  /\ lc' = [lc EXCEPT !.print_paused_for_capture = TRUE]
  /\ thread' = [thread EXCEPT ![t].pc = "verify"]
  /\ UNCHANGED <<seqv, cam, settings, audit>>

\* line 820: is_printing() is false, nothing is paused
ThreadNoPause(t) ==
  /\ thread[t].pc = "begin"
  /\ lc.camera_available
  /\ octo.state # "printing"
  /\ thread' = [thread EXCEPT ![t].pc = "grid"]
  /\ UNCHANGED <<seqv, cam, settings, octo, lc, audit>>

\* lines 825-829: after time.sleep(2), is_paused() decides
ThreadVerify(t) ==
  /\ thread[t].pc = "verify"
  /\ thread' = [thread EXCEPT ![t].pc = IF octo.state = "paused" THEN "grid" ELSE "except"]
  /\ UNCHANGED <<seqv, cam, settings, octo, lc, audit>>

\* lines 832-844: the grid for the tracked height; layer_info takes the
\* tracked layer as it is now
ThreadGrid(t) ==
  /\ thread[t].pc = "grid"
  /\ LET g == CalculateGridPositions(lc.current_z_height) IN
       thread' = [thread EXCEPT ![t].pc = IF g = <<>> THEN "except" ELSE "store",
                                ![t].grid_positions = g,
                                ![t].layer_info = lc.current_layer,
                                ![t].i = 1]
  /\ UNCHANGED <<seqv, cam, settings, octo, lc, audit>>

\* lines 1068-1072, 961-978: the position to come back to is stored
ThreadStore(t) ==
  /\ thread[t].pc = "store"
  /\ lc' = [lc EXCEPT !.movement_in_progress = TRUE,
                      !.original_position =
                         [set |-> TRUE,
                          pos |-> IF settings.enable_movement
                                  THEN [x |-> 0, y |-> 0, z |-> octo.currentZ]
                                  ELSE NoXYZ]]
  /\ thread' = [thread EXCEPT ![t].pc = "move"]
  /\ UNCHANGED <<seqv, cam, settings, octo, audit>>

\* lines 1071-1072, 1102-1112: the position could not be read; the sequence
\* tries to restore what is stored, clears the flag and raises
ThreadStoreFailed(t) ==
  /\ thread[t].pc = "store"
  /\ settings.enable_movement
  /\ LET th == [thread EXCEPT ![t].pc = "except"] IN
       IF lc.original_position.set
       THEN MoveTo([lc EXCEPT !.movement_in_progress = FALSE,
                              !.original_position =
                                 IF MoveOk(lc.original_position.pos) THEN NoOriginal ELSE @],
                   th, lc.original_position.pos)
       ELSE /\ lc' = [lc EXCEPT !.movement_in_progress = FALSE]
            /\ thread' = th
            /\ UNCHANGED <<octo, audit>>
  /\ UNCHANGED <<seqv, cam, settings>>

\* the thread after grid position i: the next position, or the way back
AfterPosition(t) ==
  IF thread[t].i < Len(thread[t].grid_positions)
  THEN [thread EXCEPT ![t].pc = "move", ![t].i = @ + 1]
  ELSE [thread EXCEPT ![t].pc = "restore"]

\* lines 1075-1083: _move_to_position to grid position i; a failed move skips
\* the position
ThreadMove(t) ==
  /\ thread[t].pc = "move"
  /\ LET p == thread[t].grid_positions[thread[t].i] IN
       MoveTo(lc, IF MoveOk(p) THEN [thread EXCEPT ![t].pc = "shoot"] ELSE AfterPosition(t), p)
  /\ UNCHANGED <<seqv, cam, settings>>

\* lines 1086-1089: image captured and saved at grid position i
ThreadShot(t) ==
  /\ thread[t].pc = "shoot"
  /\ audit' = [audit EXCEPT !.shots = @ \cup {thread[t].grid_positions[thread[t].i]}]
  /\ thread' = AfterPosition(t)
  /\ UNCHANGED <<seqv, cam, settings, octo, lc>>

\* lines 1086, 1091-1093: capture or save raised, the position is skipped
ThreadShotFailed(t) ==
  /\ thread[t].pc = "shoot"
  /\ thread' = AfterPosition(t)
  /\ UNCHANGED <<seqv, cam, settings, octo, lc, audit>>

\* lines 1095-1100, 1043-1063: back to the stored position
ThreadRestore(t) ==
  /\ thread[t].pc = "restore"
  /\ IF lc.original_position.set
     THEN MoveTo([lc EXCEPT !.movement_in_progress = FALSE,
                            !.original_position =
                               IF MoveOk(lc.original_position.pos) THEN NoOriginal ELSE @],
                 [thread EXCEPT ![t].pc = "mark"], lc.original_position.pos)
     ELSE /\ lc' = [lc EXCEPT !.movement_in_progress = FALSE]
          /\ thread' = [thread EXCEPT ![t].pc = "mark"]
          /\ UNCHANGED <<octo, audit>>
  /\ UNCHANGED <<seqv, cam, settings>>

\* line 849: self._last_captured_layer = self._current_layer
ThreadMark(t) ==
  /\ thread[t].pc = "mark"
  /\ lc' = [lc EXCEPT !.last_captured_layer = lc.current_layer]
  /\ thread' = [thread EXCEPT ![t].pc = "resume"]
  /\ UNCHANGED <<seqv, cam, settings, octo, audit>>

\* lines 852-855 and 868-872: resume_print() if the print is paused and the
\* pause was this plugin's
Resumed(t) ==
  /\ IF octo.state = "paused" /\ lc.print_paused_for_capture
     THEN /\ octo' = [octo EXCEPT !.state = "printing", !.pausedBy = "nobody"]
          /\ lc' = [lc EXCEPT !.print_paused_for_capture = FALSE,
                              !.movement_in_progress = FALSE]
     ELSE /\ octo' = octo
          /\ lc' = [lc EXCEPT !.movement_in_progress = FALSE]
  /\ thread' = [thread EXCEPT ![t] = Finished]

\* lines 851-857: the success path ends
ThreadResume(t) ==
  /\ thread[t].pc = "resume"
  /\ IF octo.state = "paused" /\ lc.print_paused_for_capture
     THEN /\ octo' = [octo EXCEPT !.state = "printing", !.pausedBy = "nobody"]
          /\ lc' = [lc EXCEPT !.print_paused_for_capture = FALSE]
     ELSE UNCHANGED <<octo, lc>>
  /\ thread' = [thread EXCEPT ![t] = Finished]
  /\ UNCHANGED <<seqv, cam, settings, audit>>

\* lines 859-875: the except clause of _execute_capture_sequence
ThreadExcept(t) ==
  /\ thread[t].pc = "except"
  /\ Resumed(t)
  /\ UNCHANGED <<seqv, cam, settings, audit>>

ThreadStep(t) ==
  \/ ThreadNoCamera(t) \/ ThreadPause(t) \/ ThreadNoPause(t) \/ ThreadVerify(t)
  \/ ThreadGrid(t) \/ ThreadStore(t) \/ ThreadStoreFailed(t) \/ ThreadMove(t)
  \/ ThreadShot(t) \/ ThreadShotFailed(t) \/ ThreadRestore(t) \/ ThreadMark(t)
  \/ ThreadResume(t) \/ ThreadExcept(t)

PluginInit ==
  /\ Constructed
  /\ jobModes = [positioning |-> "absolute", extruder |-> "absolute"]
  /\ probe = NoProbe
  /\ cam = NewCamera(FALSE)
  /\ settings \in SettingsChoices
  /\ PluginConstructed

PluginNext ==
  \/ LayerPrintStarted \/ LayerPrintFinished \/ LayerDisconnected \/ LayerConnected
  \/ JobLayerChange \/ PauseCompletes \/ SettingsSaved
  \/ \E t \in Threads : ThreadStep(t)

PluginSpec == PluginInit /\ [][PluginNext]_vars

PluginTypeOK ==
  /\ octo.state \in {"operational", "printing", "pausing", "paused", "offline"}
  /\ lc.capture_thread \in 0..MaxThreads

(* ---- claims about the layer-interval plugin ------------------------------ *)
AliveThreads == {t \in Threads : Alive(thread, t)}

\* a thread is started in this step
ThreadStarted == \E t \in Threads : thread[t].pc = "unborn" /\ thread'[t].pc = "begin"

\* C31: during an active print with the plugin enabled, whenever the job moves
\* up to a layer that is a multiple of layer_interval and no capture is
\* running, a capture is scheduled: the print is captured every
\* layer_interval layers
C31_CapturedEveryInterval ==
  [][(/\ octo'.jobLayer = octo.jobLayer + 1
      /\ lc.capture_active
      /\ settings.enabled
      /\ octo'.jobLayer % settings.layer_interval = 0
      /\ octo'.jobLayer # lc.last_captured_layer
      /\ AliveThreads = {})
     => ThreadStarted]_vars

\* C32: at most one capture thread is alive at any time, and while one is
\* alive no thread is started and the running one stays the plugin's
\* capture thread
C32_OneCaptureThread ==
  [][/\ Cardinality({t \in Threads : Alive(thread', t)}) <= 1
     /\ (AliveThreads # {} => ~ThreadStarted /\ lc'.capture_thread = lc.capture_thread)]_vars

\* a layer change asked for a capture while the capture thread was still
\* running: the tracked layer is due and has moved past the running thread's
C32_Witness ==
  \E t \in Threads :
    /\ Alive(thread, t)
    /\ lc.capture_thread = t
    /\ thread[t].pc = "begin"
    /\ lc.current_layer > thread[t].scheduled_for
    /\ lc.current_layer % settings.layer_interval = 0
    /\ lc.current_layer # lc.last_captured_layer
    /\ \A u \in Threads \ {t} : thread[u].pc = "unborn"

\* C33: a print is never left paused by a capture: once no capture thread is
\* alive, the print is not paused on the plugin's request
C33_NeverLeftPaused ==
  ~(/\ AliveThreads = {}
    /\ octo.state = "paused"
    /\ octo.pausedBy = "capture")

\* C34: the tracked layer and height change only in a step of the job (a layer
\* change, the start or the end of the print), never in a step of the
\* capture sequence
C34_TrackedByJobOnly ==
  [][(lc'.current_layer # lc.current_layer \/ lc'.current_z_height # lc.current_z_height)
     => (octo'.jobLayer # octo.jobLayer \/ octo'.prints # octo.prints
          \/ (octo'.state = "operational" /\ octo.state # "operational"))]_vars

\* C35: when a capture sequence completes while its print is still tracked,
\* the layer it records as last captured is the layer it was scheduled for
C35_RecordsScheduledLayer ==
  [][\A t \in Threads :
       (thread[t].pc = "mark" /\ thread'[t].pc = "resume" /\ lc.capture_active)
       => lc'.last_captured_layer = thread[t].scheduled_for]_vars

\* C36: a capture is scheduled only while a print is tracked; a print is
\* tracked only from a PRINT_STARTED with the plugin enabled, and never after
\* the print has ended or the printer has disconnected
C36_NoCaptureWithoutPrint ==
  [][/\ (ThreadStarted => lc.capture_active /\ settings.enabled)
     /\ (lc'.capture_active /\ ~lc.capture_active
           => octo'.prints = octo.prints + 1 /\ settings.enabled)
     /\ (octo'.state \in {"operational", "offline"} => ~lc'.capture_active)]_vars

\* a print that started with the plugin disabled, the plugin enabled later,
\* has reached a layer that is due and no capture was ever scheduled
C36_Witness ==
  /\ octo.state = "printing"
  /\ ~lc.capture_active
  /\ settings.enabled
  /\ lc.camera_available
  /\ octo.jobLayer > 0
  /\ octo.jobLayer % settings.layer_interval = 0
  /\ \A t \in Threads : thread[t].pc = "unborn"

WithinBoundaries(p) ==
  /\ min_x <= p.x /\ p.x <= max_x
  /\ min_y <= p.y /\ p.y <= max_y
  /\ 0 <= p.z /\ p.z <= settings.max_z

\* C37: every move instruction sent by _move_to_position is to a position
\* within the safety boundaries; the sequence goes on to the capture at a grid
\* position only if the move to it succeeded, and an image is captured only
\* there
C37_MovesWithinBoundaries ==
  [][/\ \A p \in audit'.moves \ audit.moves : WithinBoundaries(p)
     /\ \A t \in Threads :
          (thread[t].pc = "move" /\ thread'[t].pc = "shoot")
          => LET p == thread[t].grid_positions[thread[t].i] IN
               /\ WithinBoundaries(p)
               /\ (settings.enable_movement
                     => p \in audit'.moves /\ octo.state \in {"operational", "paused"})
     /\ (audit'.shots # audit.shots
           => \E t \in Threads :
                /\ thread[t].pc = "shoot"
                /\ audit'.shots = audit.shots \cup {thread[t].grid_positions[thread[t].i]})]_vars

\* a grid of size 1 whose centre lies outside the boundaries was calculated and
\* the move to it was refused: the thread went on without a capture
C37_Witness ==
  \E t \in Threads :
    /\ thread[t].pc = "restore"
    /\ Len(thread[t].grid_positions) = 1
    /\ ~WithinBoundaries(thread[t].grid_positions[1])
    /\ audit.moves = {}
    /\ audit.shots = {}

(* ==== the camera: camera.py =============================================== *)
\* what the device does when asked: Picamera2(), configure and start in
\* initialize; stop and close in cleanup; capture_array in capture_image
InitOutcomes == {"ok", "no_device", "start_failed"}
CleanupOutcomes == {"ok", "stop_raises", "close_raises"}
CaptureOutcomes == {"ok", "device_error"}

\* lines 45-72: _init_real_camera returns True or False and leaves the
\* attributes it has set so far
InitRealCamera(c, outcome) ==
  CASE outcome = "ok" ->
         [c EXCEPT !.camera = TRUE, !.device = "started", !.camera_type = "Picamera2",
                   !.camera_available = TRUE]
    [] outcome = "start_failed" ->
         [c EXCEPT !.camera = TRUE, !.device = "created", !.camera_available = FALSE]
    [] OTHER -> [c EXCEPT !.camera_available = FALSE]

\* lines 21-33
Initialized(c, outcome) ==
  IF c.fake_camera_mode
  THEN [c EXCEPT !.camera_type = "fake", !.camera_available = TRUE]
  ELSE InitRealCamera(c, outcome)

\* variant: the attributes are reset only when stop and close went through
Cleaned_NoFinally(c, outcome) ==
  IF c.camera /\ c.camera_type = "Picamera2"
  THEN CASE outcome = "ok" ->
              [c EXCEPT !.stops = @ + 1, !.closes = @ + 1, !.device = "closed",
                        !.camera = FALSE, !.camera_available = FALSE, !.camera_type = "none"]
         [] outcome = "close_raises" ->
              [c EXCEPT !.stops = @ + 1, !.closes = @ + 1, !.device = "stopped"]
         [] OTHER -> [c EXCEPT !.stops = @ + 1]
  ELSE c

\* lines 137-163: stop and close are called on a Picamera2 device only, and
\* the finally clause resets the attributes whatever happened
Cleaned(c, outcome) ==
  LET reset(d) == [d EXCEPT !.camera = FALSE, !.camera_available = FALSE,
                            !.camera_type = "none"]
  IN IF c.camera /\ c.camera_type = "Picamera2"
     THEN CASE outcome = "ok" ->
                 reset([c EXCEPT !.stops = @ + 1, !.closes = @ + 1, !.device = "closed"])
            [] outcome = "close_raises" ->
                 reset([c EXCEPT !.stops = @ + 1, !.closes = @ + 1, !.device = "stopped"])
            [] OTHER -> reset([c EXCEPT !.stops = @ + 1])
     ELSE reset(c)

\* lines 83-91: what capture_image gives back
Captured(c, outcome) ==
  IF ~c.camera_available THEN "error"
  ELSE IF c.fake_camera_mode THEN "image"
  ELSE IF outcome = "ok" THEN "image" ELSE "error"

\* a call of a method of the camera object, noted in calls, last and result
Called(c, op, res) == [c EXCEPT !.calls = @ + 1, !.last = op, !.result = res]

CameraInitialize ==
  /\ cam.calls < MaxCalls
  /\ \E outcome \in InitOutcomes :
       cam' = Called(Initialized(cam, outcome), "initialize",
                     IF Initialized(cam, outcome).camera_available THEN "ok" ELSE "failed")
  /\ UNCHANGED <<seqv, pluginv>>

CameraCapture ==
  /\ cam.calls < MaxCalls
  /\ \E outcome \in CaptureOutcomes :
       cam' = Called(cam, "capture_image", Captured(cam, outcome))
  /\ UNCHANGED <<seqv, pluginv>>

CameraCleanup ==
  /\ cam.calls < MaxCalls
  /\ \E outcome \in CleanupOutcomes :
       cam' = Called(Cleaned(cam, outcome), "cleanup",
                     IF cam.camera /\ cam.camera_type = "Picamera2" THEN outcome ELSE "ok")
  /\ UNCHANGED <<seqv, pluginv>>

CameraInit ==
  /\ Constructed
  /\ jobModes = [positioning |-> "absolute", extruder |-> "absolute"]
  /\ probe = NoProbe
  /\ settings = DefaultSettings
  /\ PluginConstructed
  /\ lc = NewPlugin
  /\ cam \in {NewCamera(TRUE), NewCamera(FALSE)}

CameraNext == CameraInitialize \/ CameraCapture \/ CameraCleanup

CameraSpec == CameraInit /\ [][CameraNext]_vars

\* the attributes of the camera object
CameraAttributes(c) == <<c.camera_available, c.camera_type, c.camera>>

\* C38: capture_image fails whenever the camera is not available, as it is
\* before initialize, after a failed initialize and after cleanup; cleanup
\* leaves the camera unavailable with type "none" even if stop or close
\* raised; a cleanup after a cleanup changes nothing and calls neither stop
\* nor close
C38_CameraLifecycle ==
  [][/\ (cam'.last = "capture_image" /\ cam'.calls # cam.calls /\ ~cam.camera_available
           => cam'.result = "error" /\ CameraAttributes(cam') = CameraAttributes(cam))
     /\ (cam.last = "none" => ~cam.camera_available)
     /\ ((cam'.last = "initialize" /\ cam'.result = "failed") \/ cam'.last = "cleanup"
           => ~cam'.camera_available)
     /\ (cam'.last = "cleanup" /\ cam'.calls # cam.calls
           => /\ ~cam'.camera_available
              /\ cam'.camera_type = "none"
              /\ ~cam'.camera)
     /\ (cam'.last = "cleanup" /\ cam'.calls # cam.calls /\ cam.last = "cleanup"
           => /\ CameraAttributes(cam') = CameraAttributes(cam)
              /\ cam'.stops = cam.stops
              /\ cam'.closes = cam.closes
              /\ cam'.device = cam.device)]_vars

\* a started camera was cleaned up with stop raising, cleaned up once more,
\* and a capture was then refused
C38_Witness ==
  /\ cam.last = "capture_image"
  /\ cam.result = "error"
  /\ ~cam.camera_available
  /\ cam.camera_type = "none"
  /\ cam.device = "started"
  /\ cam.stops = 1
  /\ cam.closes = 0
  /\ cam.calls = 4

====
